---- MODULE Spec2Model ----
(***************************************************************************)
(* A state-machine model of the jrpc2 Server dispatcher: the receive loop, *)
(* the inbound queue, batch validation, the handler tasks bounded by the   *)
(* semaphore, the response write, Stop, stop and Wait.                     *)
(*                                                                         *)
(* Every critical section of s.mu is one action: the lock is released only *)
(* at the end of the section or inside s.work.Wait(), which the guards of  *)
(* nextRequest and dispatchExit model.  A Go panic (a nil dereference) in  *)
(* a goroutine nobody recovers ends the process: panicked disables every   *)
(* action.                                                                 *)
(***************************************************************************)
EXTENDS Integers, Sequences, FiniteSets, TLC

\* ------------------------------------------------------------------ bounds
MaxRecv == 2          \* payloads the peer sends before it goes silent
Concurrency == 2      \* the weight of the semaphore, opts.concurrency()

\* --------------------------------------------------------------- constants
Nil == "nil"                       \* a nil pointer, interface, error or slice
NoID == "absent"                   \* req.ID == nil: the request is a notification
NullID == "null"                   \* the id of a standalone error response
Version == "2.0"
errServerStopped == "server stopped"
EOF == "EOF"
ErrIO == "io error"                \* any other error of Channel.Recv
ErrClosed == "closed channel"      \* Recv on a channel that was closed
ErrSyntax == "json syntax error"   \* *json.SyntaxError from json.Unmarshal
ErrType == "json type error"       \* *json.UnmarshalTypeError from json.Unmarshal

E_ParseError == -32700
E_InvalidRequest == -32600
E_MethodNotFound == -32601
E_InternalError == -32603

\* Go error values carried by a task: nil, a *jrpc2.Error with a code, or a
\* plain error returned by a handler.
NoError == [type |-> "nil", code |-> 0, msg |-> ""]
Errorf(code, msg) == [type |-> "Error", code |-> code, msg |-> msg]
PlainError == [type |-> "error", code |-> 0, msg |-> "handler failed"]

\* ------------------------------------------------------------------ inputs
\* The methods the Assigner knows: the handler of "M" returns a value, the
\* handler of "F" returns an error.
MuxNames == {"M", "F"}

jrequest(id, v, m) == [ID |-> id, V |-> v, M |-> m]

Call(id) == jrequest(id, Version, "M")
Notify == jrequest(NoID, Version, "M")

\* The batches the peer sends (jrequests values with at least one element):
\* calls and notifications, alone and mixed, with handlers that succeed and
\* fail, repeated ids, wrong and missing version markers, empty and unknown
\* method names.
Batches ==
    { <<Call("1")>>,
      <<Notify>>,
      <<Call("1"), jrequest("2", Version, "F")>>,
      <<Call("1"), jrequest(NoID, Version, "F"), jrequest("1", Version, "Nope")>>,
      <<Notify, jrequest(NoID, "1.0", "M"), jrequest(NoID, Version, ""),
        jrequest(NoID, Version, "Nope")>>,
      <<jrequest("2", "", "M"), Notify, jrequest("2", Version, "")>> }

VARIABLES
    ch,        \* s.ch: the channel bound by Start ("c"), or Nil
    chClosed,  \* whether Close was called on the channel passed to Start
    err,       \* s.err
    inq,       \* s.inq: the inbound queue, a sequence of batches
    used,      \* s.used
    sem,       \* units of s.sem that are acquired
    conc,      \* the weight s.sem was built with (opts.concurrency())
    allow1,    \* s.allow1
    bytesOut,  \* s.info.BytesOut
    rdpc,      \* the receive worker: "unstarted", "recv", "got", "done"
    rdgot,     \* what Recv and Unmarshal returned to the receive worker
    recvd,     \* payloads delivered so far
    dpc,       \* the dispatch worker: "unstarted", "run", "done"
    flight,    \* the callables returned by nextRequest, in dispatch order
    out,       \* the values written to the channel, in order
    waitRet,   \* what Wait returned, "pending" before it returns
    panicked   \* a goroutine panicked: the process is gone

\* The lock s.mu and the sections of code that run under it, step by step.
VARIABLES
    mu,        \* s.mu: the section that holds the lock, or "free"
    lpc,       \* the position of each section that takes the lock
    pushes,    \* payloads the receive loop has taken the lock for
    onwire     \* the pieces written to the channel, in order

\* A Header channel (hdr) and the byte stream it writes to and reads from.
VARIABLES
    mtype,     \* h.mtype
    wire,      \* the bytes written to h.wc and not yet read from h.rd
    weof,      \* the writing end of the stream was closed
    hsent,     \* what was written to the stream, frame by frame
    hgot       \* what the calls of Recv returned, in order

svars == <<ch, chClosed, err, inq, used, sem, conc, allow1, bytesOut, rdpc,
           rdgot, recvd, dpc, flight, out, waitRet, panicked>>
lockvars == <<mu, lpc, pushes, onwire>>
hdrvars == <<mtype, wire, weof, hsent, hgot>>

vars == <<ch, chClosed, err, inq, used, sem, conc, allow1, bytesOut, rdpc,
          rdgot, recvd, dpc, flight, out, waitRet, panicked, lockvars, hdrvars>>

NoRecv == [in |-> <<>>, err |-> Nil, data |-> FALSE]

\* The server as NewServer returns it.
NewServer ==
    /\ ch = Nil
    /\ chClosed = FALSE
    /\ err = Nil
    /\ inq = <<>>
    /\ used = {}
    /\ sem = 0
    /\ conc = Concurrency
    /\ allow1 = FALSE           \* the default: no v1 requests
    /\ bytesOut = 0
    /\ rdpc = "unstarted"
    /\ rdgot = NoRecv
    /\ recvd = 0
    /\ dpc = "unstarted"
    /\ flight = <<>>
    /\ out = <<>>
    /\ waitRet = "pending"
    /\ panicked = FALSE

\* No section is at the lock and nothing was written.
NoSection == <<"free", 0>>

LockIdle ==
    /\ mu = NoSection
    /\ lpc = <<>>
    /\ pushes = 0
    /\ onwire = <<>>

\* No Header channel is in use.
HdrIdle ==
    /\ mtype = <<>>
    /\ wire = <<>>
    /\ weof = FALSE
    /\ hsent = <<>>
    /\ hgot = <<>>

Init == NewServer /\ LockIdle /\ HdrIdle

\* Start(c): binds the channel and starts the two persistent workers.
Start ==
    /\ ~panicked
    /\ rdpc = "unstarted"
    /\ ch = Nil
    /\ ch' = "c"
    /\ inq' = <<>>
    /\ used' = {}
    /\ err' = Nil
    /\ rdpc' = "recv"
    /\ dpc' = "run"
    /\ UNCHANGED <<chClosed, sem, conc, allow1, bytesOut, rdgot, recvd,
                   flight, out, waitRet, panicked>>
    /\ UNCHANGED <<lockvars, hdrvars>>

\* ---------------------------------------------------------------- encoding
\* fixID: an id is put in its canonical form; an absent id stays absent.
fixID(id) == IF id = "1.0" THEN "1" ELSE id

\* The size of the JSON encoding of a response value with these entries.
jsonLen(rsps) == 2 + 8 * Len(rsps)

\* encode(ch, rsps): marshals rsps and calls ch.Send.  A method call on a nil
\* Channel panics; Send on a closed channel fails and writes nothing.
encode(c, rsps) ==
    [panic |-> c = Nil,
     sent  |-> c # Nil /\ ~chClosed,
     nw    |-> IF c # Nil /\ ~chClosed THEN jsonLen(rsps) ELSE 0]

\* A value handed to Channel.Send: the entries, and the serial number of the
\* batch it answers (0 for a standalone error of the receive loop).
Written(b, rsps) == [b |-> b, rsps |-> rsps]

jresponse(id, r, e) == [ID |-> id, R |-> r, E |-> e]

\* ------------------------------------------------------------------- stop
\* The requests of a queued batch that the queue walk of stop appends to keep.
keep(batch) == SelectSeq(batch, LAMBDA req : req.ID # NoID)

\* The queue walk of stop.  cur starts at Front and end at Back.  With fewer
\* than two elements cur = end (both nil, or the same element) and the body
\* never runs.  Otherwise the body handles the front element: it pushes keep
\* to the back when keep is not empty and removes cur; container/list clears
\* the removed element's links, so cur.Next() is nil, nil # end, and the next
\* iteration dereferences nil (cur.Value): a panic.
walkQueue(q) ==
    IF Len(q) < 2
    THEN [inq |-> q, panic |-> FALSE]
    ELSE [inq |-> Tail(q) \o (IF keep(Head(q)) # <<>> THEN <<keep(Head(q))>> ELSE <<>>),
          panic |-> TRUE]

\* stop without the test that returns when nothing is running.
stopAgain(e) ==
    /\ chClosed' = TRUE
    /\ inq' = walkQueue(inq).inq
    /\ IF walkQueue(inq).panic
       THEN panicked' = TRUE /\ UNCHANGED <<err, ch>>
       ELSE err' = e /\ ch' = Nil /\ UNCHANGED panicked

\* s.stop(e), called with s.mu held.
stop(e) ==
    IF ch = Nil
    THEN UNCHANGED <<ch, chClosed, inq, err, panicked>>
    ELSE /\ chClosed' = TRUE
         /\ inq' = walkQueue(inq).inq
         /\ IF walkQueue(inq).panic
            THEN panicked' = TRUE /\ UNCHANGED <<err, ch>>
            ELSE err' = e /\ ch' = Nil /\ UNCHANGED panicked

\* Server.Stop
Stop ==
    /\ ~panicked
    /\ stop(errServerStopped)
    /\ UNCHANGED <<used, sem, conc, allow1, bytesOut, rdpc, rdgot, recvd, dpc,
                   flight, out, waitRet>>
    /\ UNCHANGED <<lockvars, hdrvars>>

\* Server.Wait: s.wg.Wait() returns when both workers are done.  The owner
\* of the server calls it after Start, and one call is modelled.
Wait ==
    /\ ~panicked
    /\ waitRet = "pending"
    /\ rdpc = "done"
    /\ dpc = "done"
    /\ used' = {}
    /\ waitRet' = err
    /\ UNCHANGED <<ch, chClosed, err, inq, sem, conc, allow1, bytesOut, rdpc,
                   rdgot, recvd, dpc, flight, out, panicked>>
    /\ UNCHANGED <<lockvars, hdrvars>>

\* ------------------------------------------------------------ receive loop
\* A test that takes a syntax error for a recoverable one too.
isRecoverableAny(e) == e \in {ErrType, ErrSyntax}

\* A test that takes no error for a recoverable one.
isRecoverableNone(e) == FALSE

isRecoverableJSONError(e) == e = ErrType

\* ch.Recv() and json.Unmarshal deliver a batch of requests.
RecvBatch ==
    /\ ~panicked
    /\ rdpc = "recv"
    /\ ~chClosed
    /\ recvd < MaxRecv
    /\ \E b \in Batches : rdgot' = [in |-> b, err |-> Nil, data |-> TRUE]
    /\ recvd' = recvd + 1
    /\ rdpc' = "got"
    /\ UNCHANGED <<ch, chClosed, err, inq, used, sem, conc, allow1, bytesOut,
                   dpc, flight, out, waitRet, panicked>>
    /\ UNCHANGED <<lockvars, hdrvars>>

\* ch.Recv() delivers a payload that holds no request: the empty batch "[]",
\* a value of the wrong shape, or text that is not JSON.
RecvBad ==
    /\ ~panicked
    /\ rdpc = "recv"
    /\ ~chClosed
    /\ recvd < MaxRecv
    /\ \E e \in {Nil, ErrType, ErrSyntax} :
          rdgot' = [in |-> <<>>, err |-> e, data |-> TRUE]
    /\ recvd' = recvd + 1
    /\ rdpc' = "got"
    /\ UNCHANGED <<ch, chClosed, err, inq, used, sem, conc, allow1, bytesOut,
                   dpc, flight, out, waitRet, panicked>>
    /\ UNCHANGED <<lockvars, hdrvars>>

\* ch.Recv() fails with no data: the peer closed its end (EOF), the transport
\* failed, or the channel was closed by stop.
RecvFail ==
    /\ ~panicked
    /\ rdpc = "recv"
    /\ \E e \in (IF chClosed THEN {ErrClosed} ELSE {EOF, ErrIO}) :
          rdgot' = [in |-> <<>>, err |-> e, data |-> FALSE]
    /\ rdpc' = "got"
    /\ UNCHANGED <<ch, chClosed, err, inq, used, sem, conc, allow1, bytesOut,
                   recvd, dpc, flight, out, waitRet, panicked>>
    /\ UNCHANGED <<lockvars, hdrvars>>

\* s.pushError(nil, jerrorf(code, ...)), called with s.mu held.
pushError(id, code) ==
    LET rsps == <<jresponse(id, Nil, code)>>
        r == encode(ch, rsps)
    IN  /\ panicked' = r.panic
        /\ out' = IF r.sent THEN Append(out, Written(0, rsps)) ELSE out
        /\ bytesOut' = bytesOut + r.nw

\* The critical section of Server.read after a Recv.
ReadHandle ==
    /\ ~panicked
    /\ rdpc = "got"
    /\ rdgot' = IF rdgot.err # Nil /\ ~isRecoverableJSONError(rdgot.err)
                THEN rdgot ELSE NoRecv
    /\ IF isRecoverableJSONError(rdgot.err)
       THEN /\ pushError(NullID, E_ParseError)
            /\ rdpc' = "recv"
            /\ UNCHANGED <<ch, chClosed, err, inq>>
       ELSE IF rdgot.err # Nil
       THEN /\ stop(rdgot.err)
            /\ rdpc' = IF panicked' THEN "got" ELSE "done"
            /\ UNCHANGED <<out, bytesOut>>
       ELSE IF Len(rdgot.in) = 0
       THEN /\ pushError(NullID, E_InvalidRequest)
            /\ rdpc' = "recv"
            /\ UNCHANGED <<ch, chClosed, err, inq>>
       ELSE /\ inq' = Append(inq, rdgot.in)
            /\ rdpc' = "recv"
            /\ UNCHANGED <<ch, chClosed, err, out, bytesOut, panicked>>
    /\ UNCHANGED <<used, sem, conc, allow1, recvd, dpc, flight, waitRet>>
    /\ UNCHANGED <<lockvars, hdrvars>>

\* ----------------------------------------------------------- dispatch loop
versionOK(v) == IF v = "" THEN allow1 ELSE v = Version

\* s.assign(name): the handler the assigner gives for name, or Nil.  The
\* peer of the model never asks for the built-in rpc.serverInfo.
assign(name) == IF name \in MuxNames THEN name ELSE Nil

\* A check that takes every id for a new one.
isDuplicateNever(id, u) == FALSE

\* id != "" && !s.used.Add(id): Add reports whether id was new to the set u.
isDuplicate(id, u) == id # NoID /\ id \in u

\* The checks of nextRequest with the assigner asked before anything else.
newTaskLookupFirst(r, u) ==
    LET req == [r EXCEPT !.ID = fixID(r.ID)]
        e == IF req.M # "" /\ assign(req.M) = Nil
                THEN Errorf(E_MethodNotFound, "no such method")
             ELSE IF isDuplicate(req.ID, u)
                THEN Errorf(E_InvalidRequest, "duplicate request id")
             ELSE IF ~versionOK(req.V)
                THEN Errorf(E_InvalidRequest, "incorrect version marker")
             ELSE IF req.M = ""
                THEN Errorf(E_InvalidRequest, "empty method name")
             ELSE NoError
    IN  [req  |-> req,
         m    |-> IF e = NoError THEN assign(req.M) ELSE Nil,
         val  |-> Nil,
         err  |-> e,
         st   |-> IF e = NoError THEN "wait" ELSE "skip",
         ctx  |-> Nil,
         seen |-> u]

\* The task nextRequest builds for one request, with u the value of s.used
\* when the request is checked (kept in the task as seen).
newTask(r, u) ==
    LET req == [r EXCEPT !.ID = fixID(r.ID)]
        e == IF isDuplicate(req.ID, u)
                THEN Errorf(E_InvalidRequest, "duplicate request id")
             ELSE IF ~versionOK(req.V)
                THEN Errorf(E_InvalidRequest, "incorrect version marker")
             ELSE IF req.M = ""
                THEN Errorf(E_InvalidRequest, "empty method name")
             ELSE IF assign(req.M) = Nil
                THEN Errorf(E_MethodNotFound, "no such method")
             ELSE NoError
    IN  [req  |-> req,
         m    |-> IF e = NoError THEN assign(req.M) ELSE Nil,
         val  |-> Nil,
         err  |-> e,
         st   |-> IF e = NoError THEN "wait" ELSE "skip",
         ctx  |-> Nil,
         seen |-> u]

\* s.used after the request was checked: Add is called for every id.
addUsed(r, u) == IF fixID(r.ID) # NoID THEN u \cup {fixID(r.ID)} ELSE u

\* The loop of nextRequest over the requests of the dequeued batch.
RECURSIVE resolve(_, _, _)
resolve(next, u, acc) ==
    IF next = <<>>
    THEN [tasks |-> acc, used |-> u]
    ELSE resolve(Tail(next), addUsed(Head(next), u),
                 Append(acc, newTask(Head(next), u)))

\* nextRequest, when the queue is not empty: the head batch is removed and
\* checked, and the callable is handed to the task group.
nextRequest ==
    /\ ~panicked
    /\ dpc = "run"
    /\ Len(inq) # 0
    /\ LET r == resolve(Head(inq), used, <<>>)
       IN  /\ flight' = Append(flight, [ch |-> ch, tasks |-> r.tasks, st |-> "run"])
           /\ used' = r.used
    /\ inq' = Tail(inq)
    /\ UNCHANGED <<ch, chClosed, err, sem, conc, allow1, bytesOut, rdpc, rdgot,
                   recvd, dpc, out, waitRet, panicked>>
    /\ UNCHANGED <<lockvars, hdrvars>>

\* nextRequest, when the server is stopped and the queue is empty: it returns
\* s.err and the dispatch worker exits.
dispatchExit ==
    /\ ~panicked
    /\ dpc = "run"
    /\ ch = Nil
    /\ Len(inq) = 0
    /\ dpc' = "done"
    /\ UNCHANGED <<ch, chClosed, err, inq, used, sem, conc, allow1, bytesOut,
                   rdpc, rdgot, recvd, flight, out, waitRet, panicked>>
    /\ UNCHANGED <<lockvars, hdrvars>>

\* ---------------------------------------------------------------- callable
\* An Acquire that never blocks.
canAcquireAlways == TRUE

\* s.sem.Acquire(context.Background(), 1) succeeds when a unit is free.
canAcquire == sem < conc

\* s.reqctx(req): the context the handler is called with.  The server keeps
\* no cancel function for it, and no step of the server cancels it.
reqctx == "live"

\* A task of batch b takes a unit of the semaphore and enters its handler.
acquire(b, i) ==
    /\ ~panicked
    /\ flight[b].st = "run"
    /\ flight[b].tasks[i].st = "wait"
    /\ canAcquire
    /\ sem' = sem + 1
    /\ flight' = [flight EXCEPT ![b].tasks[i].st = "run",
                                ![b].tasks[i].ctx = reqctx]
    /\ UNCHANGED <<ch, chClosed, err, inq, used, conc, allow1, bytesOut, rdpc,
                   rdgot, recvd, dpc, out, waitRet, panicked>>
    /\ UNCHANGED <<lockvars, hdrvars>>

\* m.Call: whether the handler returns a value (TRUE) or an error (FALSE).
handlerOK(m) == m = "M"

\* s.dispatch: what the task records when its handler returns a value (ok)
\* or an error; the error of a notification is discarded.  s.reqctx is the
\* default hook, which gives a context and no error.
dispatch(t, ok) ==
    IF ok THEN [t EXCEPT !.val = "value", !.err = NoError, !.st = "done"]
    ELSE IF t.req.ID = NoID
         THEN [t EXCEPT !.val = Nil, !.err = NoError, !.st = "done"]
         ELSE [t EXCEPT !.val = Nil, !.err = PlainError, !.st = "done"]

\* The handler of a task returns and the deferred Release runs.
handlerReturn(b, i) ==
    /\ ~panicked
    /\ flight[b].tasks[i].st = "run"
    /\ flight' = [flight EXCEPT ![b].tasks[i] = dispatch(@, handlerOK(@.m))]
    /\ sem' = sem - 1
    /\ UNCHANGED <<ch, chClosed, err, inq, used, conc, allow1, bytesOut, rdpc,
                   rdgot, recvd, dpc, out, waitRet, panicked>>
    /\ UNCHANGED <<lockvars, hdrvars>>

\* The response entry of one task.
response(t) ==
    IF t.err = NoError THEN jresponse(t.req.ID, t.val, 0)
    ELSE IF t.err.type = "Error" THEN jresponse(t.req.ID, Nil, t.err.code)
    ELSE jresponse(t.req.ID, Nil, E_InternalError)

\* responses with the test of the notification left out.
RECURSIVE responsesAll(_)
responsesAll(ts) ==
    IF ts = <<>> THEN <<>>
    ELSE <<response(Head(ts))>> \o responsesAll(Tail(ts))

\* responses that reports only the tasks that ended with an error.
RECURSIVE responsesErrorsOnly(_)
responsesErrorsOnly(ts) ==
    IF ts = <<>> THEN <<>>
    ELSE IF Head(ts).req.ID = NoID \/ Head(ts).err = NoError
         THEN responsesErrorsOnly(Tail(ts))
    ELSE <<response(Head(ts))>> \o responsesErrorsOnly(Tail(ts))

\* responses that leaves out the tasks rejected by the checks of nextRequest.
RECURSIVE responsesNoRejected(_)
responsesNoRejected(ts) ==
    IF ts = <<>> THEN <<>>
    ELSE IF Head(ts).req.ID = NoID \/ Head(ts).st = "skip"
         THEN responsesNoRejected(Tail(ts))
    ELSE <<response(Head(ts))>> \o responsesNoRejected(Tail(ts))

\* tasks.responses()
RECURSIVE responses(_)
responses(ts) ==
    IF ts = <<>> THEN <<>>
    ELSE IF Head(ts).req.ID = NoID THEN responses(Tail(ts))
    ELSE <<response(Head(ts))>> \o responses(Tail(ts))

\* g.Wait() returned: the callable builds the responses and, when there are
\* any, sends them with s.mu held.
finish(b) ==
    /\ ~panicked
    /\ flight[b].st = "run"
    /\ \A i \in DOMAIN flight[b].tasks : flight[b].tasks[i].st \in {"skip", "done"}
    /\ LET rsps == responses(flight[b].tasks)
           r == encode(flight[b].ch, rsps)
       IN  IF Len(rsps) # 0
           THEN /\ panicked' = r.panic
                /\ out' = IF r.sent THEN Append(out, Written(b, rsps)) ELSE out
                /\ bytesOut' = bytesOut + r.nw
                /\ flight' = [flight EXCEPT ![b].st = IF r.sent THEN "sent" ELSE "lost"]
           ELSE /\ flight' = [flight EXCEPT ![b].st = "quiet"]
                /\ UNCHANGED <<out, bytesOut, panicked>>
    /\ UNCHANGED <<ch, chClosed, err, inq, used, sem, conc, allow1, rdpc, rdgot,
                   recvd, dpc, waitRet>>
    /\ UNCHANGED <<lockvars, hdrvars>>

Acquire == \E b \in DOMAIN flight : \E i \in DOMAIN flight[b].tasks : acquire(b, i)
HandlerReturn == \E b \in DOMAIN flight : \E i \in DOMAIN flight[b].tasks : handlerReturn(b, i)
Finish == \E b \in DOMAIN flight : finish(b)

Next ==
    \/ Start
    \/ Stop
    \/ Wait
    \/ RecvBatch
    \/ RecvBad
    \/ RecvFail
    \/ ReadHandle
    \/ nextRequest
    \/ dispatchExit
    \/ Acquire
    \/ HandlerReturn
    \/ Finish

Spec == Init /\ [][Next]_vars

\* The server with a peer that sends only batches of requests: every payload
\* decodes to a jrequests value that is not empty.
NextWellFormed ==
    \/ Start
    \/ Stop
    \/ Wait
    \/ RecvBatch
    \/ RecvFail
    \/ ReadHandle
    \/ nextRequest
    \/ dispatchExit
    \/ Acquire
    \/ HandlerReturn
    \/ Finish

SpecWellFormed == Init /\ [][NextWellFormed]_vars

\* --------------------------------------------------------- request checks
\* The server with either setting of allow1, started, with two batches in the
\* queue: a call with id "1", and any two requests with or without an id, with
\* the right, an empty or a wrong version marker, and with a known, an empty
\* or an unknown method name.
AnyRequests ==
    {jrequest(id, v, m) : id \in {NoID, "1", "2"}, v \in {Version, "", "1.0"},
                          m \in {"M", "", "Nope"}}

InitChecks ==
    /\ LockIdle
    /\ HdrIdle
    /\ ch = "c"
    /\ chClosed = FALSE
    /\ err = Nil
    /\ \E r1, r2 \in AnyRequests : inq = <<<<Call("1")>>, <<r1, r2>>>>
    /\ used = {}
    /\ sem = 0
    /\ conc = Concurrency
    /\ allow1 \in BOOLEAN
    /\ bytesOut = 0
    /\ rdpc = "recv"
    /\ rdgot = NoRecv
    /\ recvd = MaxRecv
    /\ dpc = "run"
    /\ flight = <<>>
    /\ out = <<>>
    /\ waitRet = "pending"
    /\ panicked = FALSE

NextChecks ==
    \/ nextRequest
    \/ Acquire
    \/ HandlerReturn
    \/ Finish

SpecChecks == InitChecks /\ [][NextChecks]_vars

\* ---------------------------------------------------------- Header framing
\* Bytes are one-character strings and a message is a sequence of bytes.
CR == "\r"
LF == "\n"
CRLF == <<CR, LF>>

UpperCase ==
    <<"A", "B", "C", "D", "E", "F", "G", "H", "I", "J", "K", "L", "M", "N",
      "O", "P", "Q", "R", "S", "T", "U", "V", "W", "X", "Y", "Z">>
LowerCase ==
    <<"a", "b", "c", "d", "e", "f", "g", "h", "i", "j", "k", "l", "m", "n",
      "o", "p", "q", "r", "s", "t", "u", "v", "w", "x", "y", "z">>
Digits ==
    <<"0", "1", "2", "3", "4", "5", "6", "7", "8", "9">>

\* The text Send writes before the MIME type and before the length.
ContentTypeHdr ==
    <<"C", "o", "n", "t", "e", "n", "t", "-", "T", "y", "p", "e", ":", " ">>
ContentLengthHdr ==
    <<"C", "o", "n", "t", "e", "n", "t", "-", "L", "e", "n", "g", "t", "h",
      ":", " ">>

\* The keys Recv looks up in the header block.
ContentTypeKey ==
    <<"c", "o", "n", "t", "e", "n", "t", "-", "t", "y", "p", "e">>
ContentLengthKey ==
    <<"c", "o", "n", "t", "e", "n", "t", "-", "l", "e", "n", "g", "t", "h">>

\* The MIME types of the framings JSON and LSP.
JSONType ==
    <<"a", "p", "p", "l", "i", "c", "a", "t", "i", "o", "n", "/", "j", "s",
      "o", "n">>
LSPType ==
    <<"a", "p", "p", "l", "i", "c", "a", "t", "i", "o", "n", "/", "v", "s",
      "c", "o", "d", "e", "-", "j", "s", "o", "n", "r", "p", "c", ";", " ",
      "c", "h", "a", "r", "s", "e", "t", "=", "u", "t", "f", "-", "8">>

\* The MIME types a channel is built with; the empty one sends no
\* Content-Type header.
MimeTypes == {<<>>, JSONType, LSPType}

\* The errors Recv returns.
ErrHeaderLine == "invalid header line"
ErrContentType == "invalid content-type"
ErrMissingLength == "missing required content-length"
ErrBadLength == "invalid content-length"
ErrUnexpectedEOF == "unexpected EOF"

\* strings.ToLower without a change of case.
ToLowerNot(s) == s

\* strings.ToLower
ToLower(s) ==
    [i \in DOMAIN s |->
        IF \E n \in DOMAIN UpperCase : UpperCase[n] = s[i]
        THEN LowerCase[CHOOSE n \in DOMAIN UpperCase : UpperCase[n] = s[i]]
        ELSE s[i]]

\* strings.TrimRight(s, cutset) and strings.TrimLeft(s, cutset)
RECURSIVE TrimRight(_, _)
TrimRight(s, cutset) ==
    IF s # <<>> /\ s[Len(s)] \in cutset
    THEN TrimRight(SubSeq(s, 1, Len(s) - 1), cutset)
    ELSE s

RECURSIVE TrimLeft(_, _)
TrimLeft(s, cutset) ==
    IF s # <<>> /\ s[1] \in cutset THEN TrimLeft(Tail(s), cutset) ELSE s

\* strings.TrimSpace
TrimSpace(s) == TrimLeft(TrimRight(s, {" ", "\t", CR, LF}), {" ", "\t", CR, LF})

\* The index of the first byte c of s, 0 when there is none.
IndexByte(s, c) ==
    IF \E i \in DOMAIN s : s[i] = c
    THEN CHOOSE i \in DOMAIN s : s[i] = c /\ \A j \in 1..(i - 1) : s[j] # c
    ELSE 0

\* An Itoa that writes the last digit only.
ItoaLastDigit(n) == <<Digits[(n % 10) + 1]>>

\* strconv.Itoa(n), for n >= 0
RECURSIVE Itoa(_)
Itoa(n) ==
    IF n < 10 THEN <<Digits[n + 1]>>
    ELSE Itoa(n \div 10) \o <<Digits[(n % 10) + 1]>>

\* The number a sequence of decimal digits denotes.
RECURSIVE DecVal(_)
DecVal(ds) ==
    IF ds = <<>> THEN 0
    ELSE 10 * DecVal(SubSeq(ds, 1, Len(ds) - 1))
         + (CHOOSE d \in 0..9 : Digits[d + 1] = ds[Len(ds)])

\* strconv.Atoi(s): an optional sign and at least one decimal digit.
Atoi(s) ==
    LET signed == s # <<>> /\ s[1] \in {"+", "-"}
        ds == IF signed THEN Tail(s) ELSE s
        ok == ds # <<>> /\ \A i \in DOMAIN ds : \E d \in DOMAIN Digits : Digits[d] = ds[i]
    IN  [ok |-> ok,
         n  |-> IF ~ok THEN 0
                ELSE IF signed /\ s[1] = "-" THEN 0 - DecVal(ds) ELSE DecVal(ds)]

\* h.ctype, as Header builds it from the MIME type.
ctype(mimeType) ==
    IF mimeType # <<>> THEN ContentTypeHdr \o mimeType \o CRLF ELSE <<>>

\* hdr.Send(msg): the bytes it writes to h.wc.
hdrSend(mimeType, msg) ==
    ctype(mimeType) \o ContentLengthHdr \o Itoa(Len(msg)) \o CRLF \o CRLF \o msg

\* h.rd.ReadString('\n') on the bytes w: the line up to and with the first LF;
\* at the end of the stream what is left, with io.EOF; else it waits.
ReadString(w, eof) ==
    LET i == IndexByte(w, LF)
    IN  IF i > 0
        THEN [st |-> "ok", raw |-> SubSeq(w, 1, i), rest |-> SubSeq(w, i + 1, Len(w))]
        ELSE IF eof THEN [st |-> "eof", raw |-> w, rest |-> <<>>]
        ELSE [st |-> "block", raw |-> <<>>, rest |-> w]

\* The map p of Recv: p[k] = v.
put(p, k, v) == {e \in p : e.k # k} \cup {[k |-> k, v |-> v]}
has(p, k) == \E e \in p : e.k = k
get(p, k) == (CHOOSE e \in p : e.k = k).v

\* The loop of Recv over the lines of the header block.
RECURSIVE readHeaders(_, _, _)
readHeaders(w, eof, p) ==
    LET r == ReadString(w, eof)
        line == TrimRight(r.raw, {CR, LF})
        i == IndexByte(line, ":")
    IN  IF r.st = "block"
        THEN [st |-> "block", err |-> Nil, p |-> p, rest |-> w]
        ELSE IF r.st = "eof" /\ r.raw = <<>>
        THEN [st |-> "err", err |-> EOF, p |-> p, rest |-> r.rest]
        ELSE IF line = <<>>
        THEN [st |-> "ok", err |-> Nil, p |-> p, rest |-> r.rest]
        ELSE IF i > 0
        THEN readHeaders(r.rest, eof,
                         put(p, ToLower(SubSeq(line, 1, i - 1)),
                             TrimSpace(SubSeq(line, i + 1, Len(line)))))
        ELSE [st |-> "err", err |-> ErrHeaderLine, p |-> p, rest |-> r.rest]

\* io.ReadFull(h.rd, data) for size bytes.
readFull(w, eof, size) ==
    IF Len(w) >= size
    THEN [st |-> "ok", err |-> Nil, data |-> SubSeq(w, 1, size),
          rest |-> SubSeq(w, size + 1, Len(w))]
    ELSE IF eof
    THEN [st |-> "err", err |-> IF w = <<>> THEN EOF ELSE ErrUnexpectedEOF,
          data |-> <<>>, rest |-> <<>>]
    ELSE [st |-> "block", err |-> Nil, data |-> <<>>, rest |-> w]

\* hdr.Recv() of a channel with MIME type m on the bytes w: the result, the
\* bytes it leaves in the stream, and whether it has to wait for more bytes.
\* A nil payload is the empty sequence.
hdrRecv(m, w, eof) ==
    LET h == readHeaders(w, eof, {})
        fail(e) == [st |-> "err", err |-> e, data |-> <<>>, rest |-> h.rest]
        size == Atoi(get(h.p, ContentLengthKey))
    IN  IF h.st # "ok"
        THEN [st |-> h.st, err |-> h.err, data |-> <<>>, rest |-> h.rest]
        ELSE IF has(h.p, ContentTypeKey) /\ get(h.p, ContentTypeKey) # m
        THEN fail(ErrContentType)
        ELSE IF ~has(h.p, ContentLengthKey)
        THEN fail(ErrMissingLength)
        ELSE IF ~size.ok \/ size.n < 0
        THEN fail(ErrBadLength)
        ELSE readFull(h.rest, eof, size.n)

\* The messages sent: empty, one byte, line ends alone, and the text of a
\* whole frame.
MaxSend == 3          \* messages sent on a channel
Payloads ==
    { <<>>,
      <<"x">>,
      CRLF \o CRLF,
      ContentLengthHdr \o <<"0">> \o CRLF \o CRLF }

\* A channel built by Header(mimeType) on a stream that is empty and open.
InitHeader ==
    /\ NewServer
    /\ LockIdle
    /\ mtype \in MimeTypes
    /\ wire = <<>>
    /\ weof = FALSE
    /\ hsent = <<>>
    /\ hgot = <<>>

\* Send(msg) on a channel of the same framing at the other end of the stream.
HdrSend ==
    /\ ~weof
    /\ Len(hsent) < MaxSend
    /\ \E msg \in Payloads :
          /\ wire' = wire \o hdrSend(mtype, msg)
          /\ hsent' = Append(hsent, msg)
    /\ UNCHANGED <<svars, lockvars, mtype, weof, hgot>>

\* Recv() returns.  The caller stops at the first error, as Server.read does.
HdrRecv ==
    /\ \A k \in DOMAIN hgot : hgot[k].err = Nil
    /\ LET r == hdrRecv(mtype, wire, weof)
       IN  /\ r.st # "block"
           /\ wire' = r.rest
           /\ hgot' = Append(hgot, [data |-> r.data, err |-> r.err])
    /\ UNCHANGED <<svars, lockvars, mtype, weof, hsent>>

NextHeader ==
    \/ HdrSend
    \/ HdrRecv

SpecHeader == InitHeader /\ [][NextHeader]_vars

\* A peer that writes header blocks of its own.  A line of a block is its
\* text, with what the line is: the content type ("type"), the content length
\* ("length") or another header ("other"); value is the header's value, and
\* n the number a length denotes, -1 when it is no decimal integer >= 0.
HeaderLine(kind, text, value, n) ==
    [kind |-> kind, text |-> text, value |-> value, n |-> n]

Type(name, value) == HeaderLine("type", name \o <<":", " ">> \o value, value, 0)
Length(name, sep, value, n) == HeaderLine("length", name \o sep \o value, value, n)
Other == HeaderLine("other", <<"X", "-", "Y", ":", " ", "1", "2">>, <<"1", "2">>, 0)

CTName == <<"C", "o", "n", "t", "e", "n", "t", "-", "T", "y", "p", "e">>
CTUpper == <<"C", "O", "N", "T", "E", "N", "T", "-", "T", "Y", "P", "E">>
CLName == <<"C", "o", "n", "t", "e", "n", "t", "-", "L", "e", "n", "g", "t", "h">>
CLUpper == <<"C", "O", "N", "T", "E", "N", "T", "-", "L", "E", "N", "G", "T", "H">>
TextType == <<"t", "e", "x", "t", "/", "p", "l", "a", "i", "n">>

Frame(lines, body) == [lines |-> lines, body |-> body]

\* The frames of the peer: header names in the case Send writes, in lower
\* and in upper case, with and without a space after the colon; a content
\* type that is JSONType, another one, or empty; no content length; lengths
\* that are and are not decimal integers >= 0; another header.
Frames ==
    { Frame(<<Length(CLName, <<":", " ">>, <<"1">>, 1)>>, <<"x">>),
      Frame(<<Length(ContentLengthKey, <<":">>, <<"1">>, 1), Other>>, <<"x">>),
      Frame(<<Other, Length(CLUpper, <<":", " ", " ">>, <<"0">>, 0)>>, <<>>),
      Frame(<<Type(CTName, JSONType), Length(CLName, <<":", " ">>, <<"1">>, 1)>>, <<"x">>),
      Frame(<<Length(CLName, <<":", " ">>, <<"1">>, 1), Type(CTUpper, JSONType)>>, <<"x">>),
      Frame(<<Type(ContentTypeKey, TextType), Length(CLName, <<":", " ">>, <<"1">>, 1)>>, <<"x">>),
      Frame(<<Type(CTName, <<>>), Length(CLName, <<":", " ">>, <<"1">>, 1)>>, <<"x">>),
      Frame(<<>>, <<"x">>),
      Frame(<<Other>>, <<"x">>),
      Frame(<<Type(CTName, JSONType)>>, <<"x">>),
      Frame(<<Length(CLName, <<":", " ">>, <<"-", "1">>, -1)>>, <<"x">>),
      Frame(<<Length(CLName, <<":", " ">>, <<"x">>, -1)>>, <<"x">>),
      Frame(<<Length(CLName, <<":", " ">>, <<>>, -1)>>, <<>>),
      Frame(<<Length(CLName, <<":", " ">>, <<"1", "x">>, -1)>>, <<"x">>),
      Frame(<<Length(CLName, <<":", " ">>, <<"1", ".", "0">>, -1)>>, <<"x">>),
      Frame(<<Length(CLName, <<":", " ">>, <<"+", "1">>, 1)>>, <<"x">>),
      Frame(<<Length(CLName, <<":", " ">>, <<"1", "0">>, 10)>>,
            <<"0", "1", "2", "3", "4", "5", "6", "7", "8", "9">>) }

\* The bytes of a frame: each line of the block, the empty line, the body.
RECURSIVE renderLines(_)
renderLines(lines) ==
    IF lines = <<>> THEN <<>>
    ELSE Head(lines).text \o CRLF \o renderLines(Tail(lines))

render(f) == renderLines(f.lines) \o CRLF \o f.body

MaxFrames == 2        \* frames the peer writes

\* The peer writes a frame when the frames before it were received.
PeerWrite ==
    /\ ~weof
    /\ wire = <<>>
    /\ Len(hsent) < MaxFrames
    /\ Len(hgot) = Len(hsent)
    /\ \A k \in DOMAIN hgot : hgot[k].err = Nil
    /\ \E f \in Frames :
          /\ wire' = render(f)
          /\ hsent' = Append(hsent, f)
    /\ UNCHANGED <<svars, lockvars, mtype, weof, hgot>>

\* The peer closes its end of the stream.
PeerClose ==
    /\ ~weof
    /\ weof' = TRUE
    /\ UNCHANGED <<svars, lockvars, mtype, wire, hsent, hgot>>

NextHeaderPeer ==
    \/ PeerWrite
    \/ PeerClose
    \/ HdrRecv

SpecHeaderPeer == InitHeader /\ [][NextHeaderPeer]_vars

\* ---------------------------------------------------------------- the lock
\* The sections of the server that take s.mu, with the steps inside them
\* taken one at a time: the receive loop after each Recv, the tail of each
\* callable (the write of the responses of its batch) and Stop.  Channel.Send
\* puts a value on the stream in two pieces, the frame's head and its body.
MaxCallables == 2     \* callables the task group runs at the same time
MaxPush == 2          \* payloads the receive loop takes the lock for

Reader == <<"read", 0>>
Stopper == <<"Stop", 0>>
Callable(i) == <<"callable", i>>
Callables == {Callable(i) : i \in 1..MaxCallables}
LockSections == {Reader, Stopper} \cup Callables

InitLock ==
    /\ NewServer
    /\ HdrIdle
    /\ mu = NoSection
    /\ lpc = [p \in LockSections |->
                IF p = Reader THEN "recv"
                ELSE IF p = Stopper THEN "lock" ELSE "handlers"]
    /\ pushes = 0
    /\ onwire = <<>>

\* A Lock that never waits.
lockFreeAlways == TRUE

\* s.mu.Lock() returns when no section holds the lock.
lockFree == mu = NoSection

\* g.Wait() of a callable returns and there are responses to send.
TasksDone(c) ==
    /\ lpc[c] = "handlers"
    /\ lpc' = [lpc EXCEPT ![c] = "lock"]
    /\ UNCHANGED <<svars, hdrvars, mu, pushes, onwire>>

\* ch.Recv() returns to the receive loop, which goes to take the lock.
RecvReturns ==
    /\ lpc[Reader] = "recv"
    /\ pushes < MaxPush
    /\ pushes' = pushes + 1
    /\ lpc' = [lpc EXCEPT ![Reader] = "lock"]
    /\ UNCHANGED <<svars, hdrvars, mu, onwire>>

\* s.mu.Lock()
Lock(p) ==
    /\ lpc[p] = "lock"
    /\ lockFree
    /\ mu' = p
    /\ lpc' = [lpc EXCEPT ![p] = "held"]
    /\ UNCHANGED <<svars, hdrvars, pushes, onwire>>

\* encode calls ch.Send, which starts to write the value.
SendBegin(p) ==
    /\ p # Stopper
    /\ lpc[p] = "held"
    /\ onwire' = Append(onwire, [by |-> p, part |-> "head"])
    /\ lpc' = [lpc EXCEPT ![p] = "send"]
    /\ UNCHANGED <<svars, hdrvars, mu, pushes>>

\* ch.Send writes the rest of the value and returns.
SendEnd(p) ==
    /\ lpc[p] = "send"
    /\ onwire' = Append(onwire, [by |-> p, part |-> "body"])
    /\ lpc' = [lpc EXCEPT ![p] = "unlock"]
    /\ UNCHANGED <<svars, hdrvars, mu, pushes>>

\* The sections that write nothing: the receive loop enqueues a batch or
\* calls stop, and Stop calls stop.
NoSend(p) ==
    /\ p \in {Reader, Stopper}
    /\ lpc[p] = "held"
    /\ lpc' = [lpc EXCEPT ![p] = "unlock"]
    /\ UNCHANGED <<svars, hdrvars, mu, pushes, onwire>>

\* s.mu.Unlock()
Unlock(p) ==
    /\ lpc[p] = "unlock"
    /\ mu' = NoSection
    /\ lpc' = [lpc EXCEPT ![p] = IF p = Reader THEN "recv" ELSE "done"]
    /\ UNCHANGED <<svars, hdrvars, pushes, onwire>>

NextLock ==
    \/ \E c \in Callables : TasksDone(c)
    \/ RecvReturns
    \/ \E p \in LockSections : Lock(p)
    \/ \E p \in LockSections : SendBegin(p)
    \/ \E p \in LockSections : SendEnd(p)
    \/ \E p \in LockSections : NoSend(p)
    \/ \E p \in LockSections : Unlock(p)

SpecLock == InitLock /\ [][NextLock]_vars

\* ================================================================ claims
HasID(t) == t.req.ID # NoID
Finished(b) == flight[b].st # "run"
\* The writes to the channel that answer batch b.
Writes(b) == {k \in DOMAIN out : out[k].b = b}
\* The position, among the entries of a batch's response, of task i's entry.
Rank(ts, i) == Cardinality({j \in 1..i : HasID(ts[j])})
\* The tasks of batch b that carry an id / whose handler was invoked.
WithID(b) == {i \in DOMAIN flight[b].tasks : HasID(flight[b].tasks[i])}
Invoked(t) == t.st \in {"run", "done"}
\* The write k answers task i of batch b with exactly one entry, at its rank.
Answers(k, b, i) ==
    /\ Len(out[k].rsps) >= Rank(flight[b].tasks, i)
    /\ out[k].rsps[Rank(flight[b].tasks, i)].ID = flight[b].tasks[i].req.ID

C2_NotificationsSilent ==
    \A k \in DOMAIN out :
        /\ \A n \in DOMAIN out[k].rsps : out[k].rsps[n].ID # NoID
        /\ out[k].b # 0 =>
              /\ Len(out[k].rsps) = Cardinality(WithID(out[k].b))
              /\ \A i \in WithID(out[k].b) : Answers(k, out[k].b, i)

\* A response was written for a batch holding a notification whose handler
\* returned an error, and a batch holding notifications that failed the
\* checks (version, empty method, unknown method) and one whose handler
\* succeeded completed without a write.
C2_Witness ==
    /\ \E b \in DOMAIN flight :
          /\ flight[b].st = "sent"
          /\ \E i \in DOMAIN flight[b].tasks :
                /\ ~HasID(flight[b].tasks[i])
                /\ flight[b].tasks[i].m = "F"
                /\ flight[b].tasks[i].st = "done"
    /\ \E b \in DOMAIN flight :
          /\ flight[b].st = "quiet"
          /\ \E i \in DOMAIN flight[b].tasks : flight[b].tasks[i].err.msg = "incorrect version marker"
          /\ \E i \in DOMAIN flight[b].tasks : flight[b].tasks[i].err.msg = "empty method name"
          /\ \E i \in DOMAIN flight[b].tasks : flight[b].tasks[i].err.msg = "no such method"
          /\ \E i \in DOMAIN flight[b].tasks : flight[b].tasks[i].val = "value"

\* The handlers that are executing, over all batches in flight.
Executing ==
    UNION {{<<b, i>> : i \in {j \in DOMAIN flight[b].tasks : flight[b].tasks[j].st = "run"}}
           : b \in DOMAIN flight}

\* C3: at most conc handlers execute at the same time, over all batches.
C3_ConcurrencyBound == Cardinality(Executing) <= conc

\* The semaphore is full with handlers of two different batches executing
\* while a third task waits for a unit.
C3_Witness ==
    /\ Cardinality(Executing) = conc
    /\ \E x, y \in Executing : x[1] # y[1]
    /\ \E b \in DOMAIN flight : \E i \in DOMAIN flight[b].tasks :
          flight[b].tasks[i].st = "wait"

\* The entry that write k holds for task i of batch b.
Entry(k, b, i) == out[k].rsps[Rank(flight[b].tasks, i)]
\* The request of task t was checked while its id was in the active set.
SeenBefore(t) == HasID(t) /\ t.req.ID \in t.seen

\* C4: a request checked while its id is in the active set is rejected as an
\* Invalid request, gets no handler, and is answered with -32600; a request
\* that was admitted is answered with the outcome of its own handler, and
\* the check of a later batch changes nothing of the batches in flight.
C4_DuplicateRejected ==
    /\ [](\A b \in DOMAIN flight : \A i \in WithID(b) :
            LET t == flight[b].tasks[i]
            IN  /\ SeenBefore(t) =>
                      /\ t.err = Errorf(E_InvalidRequest, "duplicate request id")
                      /\ t.m = Nil /\ t.st = "skip"
                      /\ \A k \in Writes(b) : Entry(k, b, i).E = E_InvalidRequest
                /\ t.m # Nil =>
                      /\ ~SeenBefore(t)
                      /\ \A k \in Writes(b) :
                            /\ Entry(k, b, i).R = t.val
                            /\ Entry(k, b, i).E \notin {E_InvalidRequest, E_MethodNotFound}
                      /\ (Finished(b) /\ ~chClosed) => Writes(b) # {})
    /\ [][Len(flight') > Len(flight)
            => /\ SubSeq(flight', 1, Len(flight)) = flight
               /\ sem' = sem /\ out' = out]_vars

\* The error response of a duplicate is already on the channel while the
\* handler of the earlier request with the same id is still executing.
C4_Witness ==
    \E b1, b2 \in DOMAIN flight :
        /\ b1 < b2
        /\ flight[b2].st = "sent"
        /\ \E i \in WithID(b1), j \in WithID(b2) :
              /\ flight[b1].tasks[i].st = "run"
              /\ flight[b2].tasks[j].req.ID = flight[b1].tasks[i].req.ID
              /\ SeenBefore(flight[b2].tasks[j])

\* The ids that entered the active set (the id was new when its request was
\* checked) with a batch that has not written its response yet.
Active ==
    UNION {{flight[b].tasks[i].req.ID :
                i \in {j \in WithID(b) : ~SeenBefore(flight[b].tasks[j])}}
           : b \in {c \in DOMAIN flight : ~Finished(c)}}

\* C5 (as stated): while the server runs, s.used is the set of the ids that
\* were admitted and not answered yet: an id leaves the set when the response
\* of its batch is written.
C5_ActiveSetExact == ch # Nil => used = Active

RECURSIVE Flatten(_)
Flatten(q) == IF q = <<>> THEN <<>> ELSE Head(q) \o Flatten(Tail(q))
PendingNotifications(q) == SelectSeq(Flatten(q), LAMBDA r : r.ID = NoID)
PendingCalls(q) == SelectSeq(Flatten(q), LAMBDA r : r.ID # NoID)

\* C6 (as stated): the step in which a stop takes effect on a running server
\* leaves every pending notification in the queue and no request with an id.
C6_StopKeepsNotifications ==
    [][(ch # Nil /\ ~chClosed /\ chClosed')
          => /\ PendingNotifications(inq') = PendingNotifications(inq)
             /\ PendingCalls(inq') = <<>>]_vars

\* C7: a batch is answered by at most one value, by one when the channel is
\* open, and the value holds one entry for each request with an id, the
\* rejected ones included; a batch of notifications completes without a
\* write and without a change of BytesOut.
C7_ResponseSize ==
    /\ [](\A b \in DOMAIN flight :
            /\ Cardinality(Writes(b)) <= 1
            /\ \A k \in Writes(b) : Len(out[k].rsps) = Cardinality(WithID(b))
            /\ flight[b].st = "sent" => Cardinality(Writes(b)) = 1
            /\ (Finished(b) /\ WithID(b) # {} /\ ~chClosed) => flight[b].st = "sent"
            /\ WithID(b) = {} => (Writes(b) = {} /\ flight[b].st \in {"run", "quiet"}))
    /\ [][\A b \in DOMAIN flight :
            (WithID(b) = {} /\ ~Finished(b) /\ flight'[b].st # "run")
                => (out' = out /\ bytesOut' = bytesOut)]_vars

\* A batch of three requests, one a notification and one rejected by the
\* checks, was answered with two entries, and a batch of notifications has
\* completed.
C7_Witness ==
    /\ \E b \in DOMAIN flight :
          /\ flight[b].st = "sent"
          /\ Len(flight[b].tasks) = 3
          /\ Cardinality(WithID(b)) = 2
          /\ \E i \in WithID(b) : flight[b].tasks[i].st = "skip"
          /\ \A k \in Writes(b) : Len(out[k].rsps) = 2
    /\ \E b \in DOMAIN flight : flight[b].st = "quiet" /\ WithID(b) = {}

\* C8 (as stated): Wait returns only once a stop has taken effect, and after
\* a stop on a running server the run cannot end before both workers have
\* exited and Wait has returned the terminal error.
C8_StopJoins ==
    /\ waitRet # "pending" => (ch = Nil /\ chClosed)
    /\ (chClosed /\ ~ENABLED NextWellFormed)
          => (rdpc = "done" /\ dpc = "done" /\ waitRet = err)

\* C9: the stop that takes effect records the error it was given; once the
\* server is stopped no step changes the terminal error or the channel
\* handle; a stop on a server that is not running, from Stop or from the
\* receive loop, changes neither of them nor the queue.
C9_StopOnce ==
    [][/\ (ch # Nil /\ ch' = Nil)
            => \/ Stop /\ err' = errServerStopped
               \/ ReadHandle /\ err' = rdgot.err
       /\ (ch = Nil /\ rdpc # "unstarted") => (err' = err /\ ch' = ch)
       /\ (ch = Nil /\ (Stop \/ (ReadHandle /\ rdpc' = "done")))
            => UNCHANGED <<err, inq, ch, chClosed>>]_vars

\* After Stop took effect the receive loop failed and called stop with its
\* own error, and the terminal error is still the one of Stop.
C9_Witness ==
    /\ rdpc = "done"
    /\ rdgot.err = ErrClosed
    /\ err = errServerStopped
    /\ ch = Nil

\* C10 (as stated): when the receive loop ends on an EOF without data, the
\* terminal error recorded, and returned by Wait, is the server-stopped
\* sentinel.
C10_EOFIsClean ==
    (rdpc = "done" /\ rdgot.err = EOF)
        => (err = errServerStopped /\ waitRet \in {"pending", errServerStopped})

\* The standalone error response of the receive loop for a payload that is
\* not a JSON-RPC request value.
ParseErrorWrite == Written(0, <<jresponse(NullID, Nil, E_ParseError)>>)
\* The receive loop handles a payload that failed to decode with error e.
Handles(e) == ReadHandle /\ rdgot.data /\ rdgot.err = e

\* C11 (as stated): when the receive loop of a running server handles a
\* payload with a JSON syntax error, it writes one error response with id
\* null and code -32700 and goes on to read the next payload.
C11_SyntaxErrorAnswered ==
    [][(Handles(ErrSyntax) /\ ch # Nil)
          => (out' = Append(out, ParseErrorWrite) /\ rdpc' = "recv")]_vars

\* C11 (amended): when the receive loop handles a payload with a JSON syntax
\* error it writes nothing and enqueues nothing, and it never reads another
\* payload: the error stays the last thing the receive loop got.
C11_SyntaxErrorFatal ==
    /\ [](rdgot.err = ErrSyntax => rdpc \in {"got", "done"})
    /\ [][/\ Handles(ErrSyntax)
                => /\ out' = out /\ bytesOut' = bytesOut
                   /\ Len(inq') <= Len(inq)
                   /\ rdpc' # "recv"
          /\ rdgot.err = ErrSyntax => (rdgot' = rdgot /\ recvd' = recvd)]_vars

\* A payload with a syntax error ended the session of a running server: the
\* receive loop has exited and the syntax error is the terminal error.
C11_Witness ==
    /\ rdpc = "done"
    /\ rdgot.err = ErrSyntax
    /\ err = ErrSyntax
    /\ \A k \in DOMAIN out : out[k] # ParseErrorWrite

\* C12 (as stated): when the receive loop of a running server handles an I/O
\* error of Recv or a JSON syntax error, it enqueues nothing, writes nothing,
\* records that error as the terminal error, releases the channel and exits;
\* and Wait returns that error.
C12_FatalErrorStops ==
    /\ [](\A e \in {ErrIO, ErrSyntax} :
            (rdpc = "done" /\ rdgot.err = e /\ err = e /\ waitRet # "pending")
                => waitRet = e)
    /\ [][\A e \in {ErrIO, ErrSyntax} :
            (ReadHandle /\ rdgot.err = e /\ ch # Nil)
                => /\ Len(inq') <= Len(inq)
                   /\ out' = out
                   /\ err' = e /\ ch' = Nil
                   /\ rdpc' = "done"]_vars

\* C13: when the receive loop of a running server handles a payload that
\* failed to decode with a recoverable error, the queue is unchanged, exactly
\* one value is written, the standalone error with id null and code -32700,
\* the server stays running and the receive loop goes back to Recv.
C13_RecoverableAnswered ==
    [][(Handles(ErrType) /\ ch # Nil)
          => /\ inq' = inq
             /\ out' = Append(out, ParseErrorWrite)
             /\ bytesOut' = bytesOut + jsonLen(ParseErrorWrite.rsps)
             /\ ch' = ch /\ err' = err /\ chClosed' = chClosed /\ ~chClosed
             /\ ~panicked'
             /\ rdpc' = "recv"]_vars

\* The parse error of a payload was written, and the batch received after it
\* was answered on the same channel.
C13_Witness ==
    \E k1, k2 \in DOMAIN out :
        /\ k1 < k2
        /\ out[k1] = ParseErrorWrite
        /\ out[k2].b # 0

\* C14 (as stated): the step in which a stop takes effect cancels the
\* context of every handler that is executing.
C14_StopCancelsHandlers ==
    [][(ch # Nil /\ ch' = Nil)
          => \A x \in Executing : flight'[x[1]].tasks[x[2]].ctx = "cancelled"]_vars

\* C19 (as stated): the step in which a stop takes effect removes no pending
\* notification from the queue and leaves the dispatch worker alive to take
\* them, and the dispatch worker exits only when the server is stopped and
\* the queue is empty.
C19_QueuedNotificationsDispatched ==
    [][/\ (ch # Nil /\ chClosed')
            => /\ PendingNotifications(inq') = PendingNotifications(inq)
               /\ ~panicked'
       /\ (dpc = "run" /\ dpc' = "done") => (ch = Nil /\ inq = <<>>)]_vars

\* C20 (as stated): when Wait has returned, no handler is executing and no
\* callable of a dispatched batch has its response write still ahead.
C20_WaitJoinsHandlers ==
    waitRet # "pending"
        => (Executing = {} /\ \A b \in DOMAIN flight : Finished(b))

\* The sections inside Send, and the sections between Lock and Unlock.
Sending == {p \in DOMAIN lpc : lpc[p] = "send"}
Inside == {p \in DOMAIN lpc : lpc[p] \in {"held", "send", "unlock"}}
Heads(p) == {k \in DOMAIN onwire : onwire[k] = [by |-> p, part |-> "head"]}

\* C15: at most one section is inside Send, and it holds the lock; on the
\* stream the head of every value is followed at once by its own body, so no
\* two values interleave; a callable sends the responses of its batch as one
\* value.
C15_WritesSerialized ==
    /\ Cardinality(Sending) <= 1
    /\ \A p \in Inside : mu = p
    /\ \A k \in DOMAIN onwire :
          IF onwire[k].part = "head"
          THEN IF k = Len(onwire)
               THEN lpc[onwire[k].by] = "send"
               ELSE onwire[k + 1] = [by |-> onwire[k].by, part |-> "body"]
          ELSE k > 1 /\ onwire[k - 1] = [by |-> onwire[k].by, part |-> "head"]
    /\ \A c \in Callables : Cardinality(Heads(c)) <= 1

\* A callable is inside Send while another one, whose handlers have returned
\* too, waits at the lock, and an error response of the receive loop is on
\* the stream already.
C15_Witness ==
    /\ Heads(Reader) # {}
    /\ \E c1, c2 \in Callables :
          /\ c1 # c2
          /\ lpc[c1] = "send"
          /\ lpc[c2] = "lock"

\* C16: on a Header channel, with or without a MIME type, the calls of Recv
\* return the messages sent, in order and byte for byte, one per call and
\* without an error, and the stream is empty exactly when every message sent
\* has been received.
C16_HeaderRoundTrip ==
    /\ Len(hgot) <= Len(hsent)
    /\ \A k \in DOMAIN hgot : hgot[k] = [data |-> hsent[k], err |-> Nil]
    /\ (wire = <<>>) <=> (Len(hgot) = Len(hsent))

\* On a channel with a MIME type the empty message, the text of a whole
\* frame and a message of line ends alone were sent,
\* and three calls of Recv have returned.
C16_Witness ==
    /\ mtype # <<>>
    /\ hsent = << <<>>, ContentLengthHdr \o <<"0">> \o CRLF \o CRLF, CRLF \o CRLF >>
    /\ Len(hgot) = 3
    /\ wire = <<>>

\* What a frame of the peer carries, read off its lines.
TypeValues(f) == {f.lines[i].value : i \in {j \in DOMAIN f.lines : f.lines[j].kind = "type"}}
Lengths(f) == {f.lines[i].n : i \in {j \in DOMAIN f.lines : f.lines[j].kind = "length"}}
\* The frame has a content type other than m, no content length, or a
\* content length that is no decimal integer >= 0.
Refused(f, m) ==
    \/ \E v \in TypeValues(f) : v # m
    \/ Lengths(f) = {}
    \/ -1 \in Lengths(f)

\* C17: a Recv that reads a frame with a content type other than the
\* channel's MIME type, without a content length, or with a content length
\* that is no decimal integer >= 0 returns an error and no payload; a Recv
\* that reads any other frame returns its body, whatever the case of the
\* header names and whatever other headers the block holds.
C17_HeaderRejects ==
    [][(wire # <<>> /\ Len(hgot') = Len(hgot) + 1)
          => LET f == hsent[Len(hsent)]
                 res == hgot'[Len(hgot')]
             IN  IF Refused(f, mtype)
                 THEN res.err \in {ErrContentType, ErrMissingLength, ErrBadLength}
                      /\ res.data = <<>>
                 ELSE res = [data |-> f.body, err |-> Nil] /\ wire' = <<>>]_vars

\* A frame with its content length in lower case and another header was
\* received, and then a frame with a content type other than the channel's
\* was refused.
C17_Witness ==
    /\ Len(hgot) = 2 /\ Len(hsent) = 2
    /\ hsent[1] = Frame(<<Length(ContentLengthKey, <<":">>, <<"1">>, 1), Other>>, <<"x">>)
    /\ hgot[1] = [data |-> <<"x">>, err |-> Nil]
    /\ TypeValues(hsent[2]) # {} /\ mtype \notin TypeValues(hsent[2])
    /\ hgot[2].err = ErrContentType

\* The version marker v is the one of JSON-RPC 2.0, or it is empty and the
\* server is in v1-compatible mode.
VersionAccepted(v) == v = Version \/ (v = "" /\ allow1)
CheckErrors ==
    {"duplicate request id", "incorrect version marker", "empty method name",
     "no such method"}

\* C18: the checks of a request run in the order duplicate id, version
\* marker, empty method name, assigner lookup, and the first that fails gives
\* the task its error: Invalid request (-32600) for the first three, Method
\* not found (-32601) for the last, and that code is the one written for the
\* request; a request that passes them all gets its handler; an empty version
\* marker passes only when allow1 is set.
C18_CheckOrder ==
    \A b \in DOMAIN flight : \A i \in DOMAIN flight[b].tasks :
        LET t == flight[b].tasks[i]
            dup == SeenBefore(t)
            ver == ~dup /\ ~VersionAccepted(t.req.V)
            nom == ~dup /\ ~ver /\ VersionAccepted(t.req.V) /\ t.req.M = ""
            unk == ~dup /\ VersionAccepted(t.req.V) /\ t.req.M # ""
                        /\ t.req.M \notin MuxNames
        IN  /\ dup <=> t.err = Errorf(E_InvalidRequest, "duplicate request id")
            /\ ver <=> t.err = Errorf(E_InvalidRequest, "incorrect version marker")
            /\ nom <=> t.err = Errorf(E_InvalidRequest, "empty method name")
            /\ unk <=> t.err = Errorf(E_MethodNotFound, "no such method")
            /\ (t.m # Nil) <=> ~(dup \/ ver \/ nom \/ unk)
            /\ (t.req.V = "" /\ t.m # Nil) => allow1
            /\ (HasID(t) /\ t.err.msg \in CheckErrors)
                  => \A k \in Writes(b) : Entry(k, b, i).E = t.err.code

\* A request with a duplicate id and an unknown method was answered Invalid
\* request, and in the same batch a request with an empty version marker got
\* its handler.
C18_Witness ==
    \E b \in DOMAIN flight : \E i, j \in DOMAIN flight[b].tasks :
        /\ flight[b].st = "sent"
        /\ SeenBefore(flight[b].tasks[i])
        /\ flight[b].tasks[i].req.M = "Nope"
        /\ \A k \in Writes(b) : Entry(k, b, i).E = E_InvalidRequest
        /\ flight[b].tasks[j].req.V = ""
        /\ flight[b].tasks[j].st = "done"

\* C21 (as stated): the step in which a stop takes effect on a running
\* server completes without a fault, whatever the length of the queue.
C21_QueueWalkCompletes ==
    [][(ch # Nil /\ chClosed') => (~panicked' /\ ch' = Nil)]_vars

\* C22 (as stated): once a stop has taken effect the receive worker adds no
\* batch to the queue and its step ends without a fault of a write, and no
\* batch is in the queue after the dispatch worker has exited.
C22_NoEnqueueAfterStop ==
    /\ [](dpc = "done" => inq = <<>>)
    /\ [][(ch = Nil /\ chClosed /\ ReadHandle)
            => (Len(inq') <= Len(inq) /\ ~panicked')]_vars

\* C23 (as stated): the channel a callable captured for the responses of a
\* batch with a request that carries an id is the channel bound by Start.
C23_CallableChannelBound ==
    \A b \in DOMAIN flight : WithID(b) # {} => flight[b].ch = "c"

====
